---- MODULE Spec2Model ----
(***************************************************************************)
(* Identity and session lifecycle of the MCP server: the SQLite credential *)
(* store (server/storage.py), the JWT session manager                      *)
(* (server/auth/session.py), the OAuth/PKCE flow (server/auth/oauth.py)    *)
(* and the login callback (server/main.py).                                *)
(*                                                                         *)
(* Time is counted in minutes.  Every request handler is a coroutine; each *)
(* storage call runs in a worker thread (asyncio.to_thread), so handlers   *)
(* interleave at every storage call and at every provider HTTP call.  Each *)
(* action below is one such uninterrupted segment of one handler.          *)
(***************************************************************************)
EXTENDS Integers, Sequences, FiniteSets, TLC

(* ------------------------------ bounds --------------------------------- *)
NProcs == 2          \* request handlers in flight at the same time
MaxSessions == 2     \* session identifiers that can be drawn
MaxCodes == 1        \* exchange codes that can be drawn
MaxStates == 1       \* PKCE state values that can be drawn

(* ------------------------- program constants --------------------------- *)
SESSION_DURATION_HOURS == 24
JWT_ALGORITHM == "HS256"
ExchangeCodeMinutes == 5
DefaultExpiresIn == 3600

SessionMinutes == SESSION_DURATION_HOURS * 60

(* ------------------------------ values --------------------------------- *)
Procs == 1..NProcs
Subs == {"u1", "u2"}
Emails == {"", "e@x.com"}
\* The moments at which something is done: around the end of an exchange
\* code's lifetime and around the end of a session's lifetime.
CodeTimes == {ExchangeCodeMinutes, ExchangeCodeMinutes + 1}
SessionTimes == {SessionMinutes, SessionMinutes + 1}
SessionInputs == {<<"u1", "e@x.com">>, <<"u2", "">>}

None == <<>>
Some(x) == <<x>>
IsNone(o) == Len(o) = 0
Val(o) == o[1]

NoJti == 0                       \* a payload without a jti claim
UnknownJti == MaxSessions + 1    \* a jti no session record was ever saved for
UnknownCode == MaxCodes + 1      \* a code that was never issued
UnknownState == MaxStates + 1    \* a state that was never issued
NoState == 0                     \* the callback's state parameter is missing

NoTok == [jti |-> NoJti, sub |-> "", email |-> "", iat |-> 0, exp |-> 0,
          sig |-> "none", alg |-> ""]

(* ------------------------------- JWT ----------------------------------- *)
\* jwt.encode(payload, secret_key, algorithm): the signed credential.
JwtEncode(jti, sub, email, iat, exp) ==
    [jti |-> jti, sub |-> sub, email |-> email, iat |-> iat, exp |-> exp,
     sig |-> "ok", alg |-> JWT_ALGORITHM]

JwtDecode_NoExpiry(tok, t) ==
    IF tok.alg # JWT_ALGORITHM THEN "InvalidAlgorithmError"
    ELSE IF tok.sig # "ok" THEN "InvalidSignatureError"
    ELSE "ok"

\* jwt.decode(token, secret_key, algorithms=[algorithm]) at time t: "ok" or
\* the exception it raises.  The algorithm is checked first, then the
\* signature, then the exp claim (expired when exp <= now).
JwtDecode(tok, t) ==
    IF tok.alg # JWT_ALGORITHM THEN "InvalidAlgorithmError"
    ELSE IF tok.sig # "ok" THEN "InvalidSignatureError"
    ELSE IF tok.exp <= t THEN "ExpiredSignatureError"
    ELSE "ok"

\* The exception hierarchies of the jwt and httpx packages: every decode error
\* derives from InvalidTokenError, every transport or status error from
\* HTTPError.
IsSubclass(exc, base) ==
    \/ exc = base
    \/ /\ base = "InvalidTokenError"
       /\ exc \in {"InvalidAlgorithmError", "InvalidSignatureError",
                   "ExpiredSignatureError"}
    \/ /\ base = "HTTPError"
       /\ exc \in {"HTTPStatusError", "ConnectError"}
    \/ base = "Exception"

Caught(exc, handlers) == \E h \in handlers : IsSubclass(exc, h)

VerifyHandlers_OnlyExpired == {"ExpiredSignatureError"}

\* The except clauses of verify_session.
VerifyHandlers == {"ExpiredSignatureError", "InvalidTokenError"}

\* The except clause of revoke_session.
RevokeHandlers == {"InvalidTokenError"}

(* ------------------------------ storage -------------------------------- *)
\* A table is a function from the primary keys present to the rows.
Upsert(T, k, r) == [x \in DOMAIN T \cup {k} |-> IF x = k THEN r ELSE T[x]]

\* INSERT OR REPLACE INTO sessions (jti, user_sub, user_email, expires_at);
\* revoked takes its column default 0.
SaveSessionSync(S, jti, user_sub, user_email, expires_at) ==
    Upsert(S, jti, [user_sub |-> user_sub, user_email |-> user_email,
                    expires_at |-> expires_at, revoked |-> FALSE])

GetSessionSync_IgnoreRevoked(S, jti) ==
    IF jti \in DOMAIN S THEN Some(S[jti]) ELSE None

GetSessionSync_OnlyRevoked(S, jti) ==
    IF jti \in DOMAIN S /\ S[jti].revoked THEN Some(S[jti]) ELSE None

\* SELECT * FROM sessions WHERE jti = ? AND revoked = 0
GetSessionSync(S, jti) ==
    IF jti \in DOMAIN S /\ ~S[jti].revoked THEN Some(S[jti]) ELSE None

RevokeSessionSync_Replace(S, jti) ==
    Upsert(S, jti, [user_sub |-> "", user_email |-> "", expires_at |-> 0,
                    revoked |-> TRUE])

RevokeSessionSync_Delete(S, jti) == [x \in DOMAIN S \ {jti} |-> S[x]]

RevokeSessionSync_AllOfUser(S, jti) ==
    [x \in DOMAIN S |->
        IF jti \in DOMAIN S /\ S[x].user_sub = S[jti].user_sub
        THEN [S[x] EXCEPT !.revoked = TRUE] ELSE S[x]]

RevokeSessionSync_NoOp(S, jti) == S

\* UPDATE sessions SET revoked = 1 WHERE jti = ?
RevokeSessionSync(S, jti) ==
    [x \in DOMAIN S |-> IF x = jti THEN [S[x] EXCEPT !.revoked = TRUE] ELSE S[x]]

\* INSERT OR REPLACE INTO user_tokens (...)
SaveUserTokensSync_TwoWrites(U, user_sub, user_email, access_token, refresh_token, expires_at) ==
    Upsert(U, user_sub, [user_email |-> user_email, access_token |-> access_token,
                         refresh_token |-> refresh_token,
                         token_expires_at |->
                             IF user_sub \in DOMAIN U
                             THEN U[user_sub].token_expires_at ELSE expires_at])

SaveUserTokensSync(U, user_sub, user_email, access_token, refresh_token, expires_at) ==
    Upsert(U, user_sub, [user_email |-> user_email, access_token |-> access_token,
                         refresh_token |-> refresh_token,
                         token_expires_at |-> expires_at])

GetUserTokensSync_Missing(U, user_sub) == None

\* SELECT * FROM user_tokens WHERE user_sub = ?
GetUserTokensSync(U, user_sub) ==
    IF user_sub \in DOMAIN U THEN Some(U[user_sub]) ELSE None

\* INSERT INTO exchange_codes (code, user_sub, expires_at); used defaults to 0.
SaveExchangeCodeSync(E, code, user_sub, expires_at) ==
    Upsert(E, code, [user_sub |-> user_sub, expires_at |-> expires_at,
                     used |-> FALSE])

\* SELECT user_sub, expires_at, used FROM exchange_codes WHERE code = ?
SelectExchangeCode(E, code) ==
    IF code \in DOMAIN E THEN Some(E[code]) ELSE None

MarkExchangeCodeUsed_Replace(E, code) ==
    Upsert(E, code, [user_sub |-> "", expires_at |-> 0, used |-> TRUE])

MarkExchangeCodeUsed_NoOp(E, code) == E

\* UPDATE exchange_codes SET used = 1 WHERE code = ?
MarkExchangeCodeUsed(E, code) ==
    [x \in DOMAIN E |-> IF x = code THEN [E[x] EXCEPT !.used = TRUE] ELSE E[x]]

CodeExpired_Never(t, expires_at) == FALSE

\* datetime.utcnow() > expires_at
CodeExpired(t, expires_at) == t > expires_at

SessionExpired_Never(t, expires_at) == FALSE

\* datetime.utcnow() > expires_at, on the persisted expires_at
SessionExpired(t, expires_at) == t > expires_at

(* ------------------------------- state --------------------------------- *)
VARIABLES
    now,             \* datetime.utcnow(), in minutes
    sessions,        \* table sessions: jti -> row
    user_tokens,     \* table user_tokens: user_sub -> row
    exchange_codes,  \* table exchange_codes: code -> row
    pkce_store,      \* OAuthManager._pkce_store: state -> verifier/challenge
    nextJti,         \* the next fresh secrets.token_urlsafe(32) session id
    nextCode,        \* the next fresh exchange code
    nextState,       \* the next fresh OAuth state
    calls,           \* the handler running in each slot: position and locals
    issued,          \* credentials create_session has returned
    revokedOk,       \* credentials for which revoke_session has returned True
    redeemed,        \* <<code, jti>>: exchange_code_for_session(code) returned the credential jti
    consumed         \* per OAuth state: exchange_code calls that obtained its verifier

vars == <<now, sessions, user_tokens, exchange_codes, pkce_store,
          nextJti, nextCode, nextState, calls, issued, revokedOk, redeemed,
          consumed>>

store == <<sessions, user_tokens, exchange_codes>>
fresh == <<nextJti, nextCode, nextState>>
clock == <<now>>

NoResp == [status |-> "", access_token |-> "", refresh_token |-> "",
           expires_in |-> 0, sub |-> "", email |-> ""]

\* The Authorization header of a request: absent, or the words in front of
\* the credential (each followed by one space) and the credential.
NoHeader == [present |-> FALSE, words |-> <<>>, tok |-> NoTok]

\* A free slot.  h records the call's history: the facts that held when it
\* started, the tables it wrote and the provider calls it made.
Idle == [op |-> "idle", pc |-> "done", status |-> "idle", err |-> "",
         tok |-> NoTok, code |-> 0, state |-> 0, sub |-> "", email |-> "",
         jti |-> 0, t |-> 0, row |-> None, ret |-> None, resp |-> NoResp,
         hdr |-> NoHeader, h |-> {}]

Init ==
    /\ now = 0
    /\ sessions = <<>>
    /\ user_tokens = <<>>
    /\ exchange_codes = <<>>
    /\ pkce_store = <<>>
    /\ nextJti = 1
    /\ nextCode = 1
    /\ nextState = 1
    /\ calls = [p \in Procs |-> Idle]
    /\ issued = {}
    /\ revokedOk = {}
    /\ redeemed = {}
    /\ consumed = [s \in {} |-> 0]

\* The session ids and exchange codes are drawn from finite pools: a call that
\* may come to draw one reserves it when it starts.
Reservations == {"r_jti", "r_code"}

Running(p) == calls[p].status = "running"
At(p, pc) == Running(p) /\ calls[p].pc = pc

\* A new handler takes the lowest slot that runs none (the slots are
\* interchangeable); what the slot's last call left there is overwritten.
Free(p) == ~Running(p) /\ \A q \in Procs : q < p => Running(q)

\* What a finished call left in its slot is an observation of that call:
\* it is there in the state the call ends in and is gone with the next step.
Sweep(cs) == [q \in Procs |-> IF cs[q].status = "running" THEN cs[q] ELSE Idle]

\* The call ends and hands v to its caller; its locals are gone, its
\* operation, its argument, the exception it caught and its history stay.
Returned(c, v) ==
    [Idle EXCEPT !.op = c.op, !.status = "returned", !.ret = v, !.err = c.err,
                 !.h = c.h \ Reservations, !.tok = c.tok, !.code = c.code,
                 !.state = c.state]

\* The call ends with exception e reaching its caller.
Raised(c, e) ==
    [Idle EXCEPT !.op = c.op, !.status = "raised", !.err = e,
                 !.h = c.h \ Reservations, !.tok = c.tok, !.code = c.code,
                 !.state = c.state]

\* The step of slot p in which its call ends, and in which it returns v.
Ends(p) == Running(p) /\ calls'[p].status \in {"returned", "raised"}
ReturnsNone(p) ==
    Running(p) /\ calls'[p].status = "returned" /\ IsNone(calls'[p].ret)
Steps(p) == calls'[p] # calls[p]

\* Handlers that have still to draw a session id, or an exchange code.
WillDrawJti == {p \in Procs : Running(p) /\ "r_jti" \in calls[p].h}
WillDrawCode == {p \in Procs : Running(p) /\ "r_code" \in calls[p].h}
JtiLeft == nextJti + Cardinality(WillDrawJti) <= MaxSessions
CodeLeft == nextCode + Cardinality(WillDrawCode) <= MaxCodes

\* The clock moves on between any two steps.
Tick(t) ==
    /\ t > now
    /\ now' = t
    /\ calls' = Sweep(calls)
    /\ UNCHANGED <<store, pkce_store, fresh, issued, revokedOk, redeemed,
                   consumed>>

(* -------------------- SessionManager.create_session -------------------- *)
\* create_session(user_sub, user_email) called on its own.
CallCreateSession(p, user_sub, user_email) ==
    /\ Free(p)
    /\ JtiLeft
    /\ calls' = [Sweep(calls) EXCEPT ![p] =
                   [Idle EXCEPT !.op = "create_session", !.pc = "cs_begin",
                                !.status = "running", !.sub = user_sub,
                                !.email = user_email, !.h = {"r_jti"}]]
    /\ UNCHANGED <<clock, store, pkce_store, fresh, issued, revokedOk,
                   redeemed, consumed>>

\* jti = secrets.token_urlsafe(32); now = utcnow(); expires_at = now + 24h
CsBegin(p) ==
    /\ At(p, "cs_begin")
    /\ nextJti <= MaxSessions
    /\ calls' = [Sweep(calls) EXCEPT ![p].jti = nextJti, ![p].t = now,
                                     ![p].pc = "cs_save",
                                     ![p].h = @ \ {"r_jti"}]
    /\ nextJti' = nextJti + 1
    /\ UNCHANGED <<clock, store, pkce_store, nextCode, nextState, issued,
                   revokedOk, redeemed, consumed>>

\* await storage.save_session(...); token = jwt.encode(payload); return token.
\* In the login callback the handler goes on to create_exchange_code.
CsSave(p) ==
    /\ At(p, "cs_save")
    /\ LET c == calls[p]
           expires_at == c.t + SessionMinutes
           token == JwtEncode(c.jti, c.sub, c.email, c.t, expires_at)
           c2 == [c EXCEPT !.h = @ \cup {"w_sessions"}, !.tok = token]
       IN /\ sessions' = SaveSessionSync(sessions, c.jti, c.sub, c.email, expires_at)
          /\ issued' = issued \cup {token}
          /\ IF c.op = "callback"
             THEN /\ calls' = [Sweep(calls) EXCEPT ![p] = [c2 EXCEPT !.pc = "cc_begin"]]
                  /\ UNCHANGED redeemed
             ELSE /\ calls' = [Sweep(calls) EXCEPT ![p] = Returned(c2, Some(token))]
                  /\ redeemed' = IF c.op = "redeem" THEN redeemed \cup {<<c.code, c.jti>>}
                                 ELSE redeemed
    /\ UNCHANGED <<clock, user_tokens, exchange_codes, pkce_store, fresh,
                   revokedOk, consumed>>

(* -------------------- SessionManager.verify_session -------------------- *)
\* Credentials a caller can present: the issued ones, copies of them with a
\* broken signature or another algorithm in the header, and credentials
\* signed with the server's key that carry no jti or a jti without a record.
Tampered(tok) == [tok EXCEPT !.sig = "bad"]
OtherAlg(tok) == [tok EXCEPT !.alg = "none"]
StrayTokens == {JwtEncode(NoJti, "u1", "", 0, SessionMinutes),
                JwtEncode(UnknownJti, "u1", "", 0, SessionMinutes)}
Presentable ==
    issued \cup {Tampered(k) : k \in issued} \cup {OtherAlg(k) : k \in issued}
           \cup StrayTokens

\* What is true of the credential when verify_session starts.
VerifyFacts(tok) == IF tok \in revokedOk THEN {"after_revoke"} ELSE {}

\* verify_session hands v to its caller.  Called from verify_auth for a
\* request to /mcp, None becomes HTTPException(status_code=401) and a payload
\* lets the request through to the endpoint with user_info["sub"].
VerifyDone(c, v) ==
    IF c.op # "mcp" THEN Returned(c, v)
    ELSE IF IsNone(v)
    THEN Raised([c EXCEPT !.h = @ \cup {"verify_none"}], "401")
    ELSE [c EXCEPT !.sub = Val(v).sub, !.jti = 0, !.row = None,
                   !.h = @ \cup {"verified"}, !.pc = "m_dispatch"]

\* A request presents the credential to verify_session.
CallVerify(p, token) ==
    /\ Free(p)
    /\ calls' = [Sweep(calls) EXCEPT ![p] =
                   [Idle EXCEPT !.op = "verify", !.pc = "v_decode",
                                !.status = "running", !.tok = token,
                                !.h = VerifyFacts(token)]]
    /\ UNCHANGED <<clock, store, pkce_store, fresh, issued, revokedOk,
                   redeemed, consumed>>

\* payload = jwt.decode(...); jti = payload.get("jti"); if not jti: return None
\* An exception of jwt.decode is turned into None by the except clauses, and
\* leaves verify_session when no clause matches it.
VDecode(p) ==
    /\ At(p, "v_decode")
    /\ LET c == calls[p]
           d == JwtDecode(c.tok, now)
       IN calls' = [Sweep(calls) EXCEPT ![p] =
                      IF d # "ok"
                      THEN IF Caught(d, VerifyHandlers)
                           THEN VerifyDone(c, None) ELSE Raised(c, d)
                      ELSE IF c.tok.jti = NoJti THEN VerifyDone(c, None)
                      ELSE [c EXCEPT !.jti = c.tok.jti, !.pc = "v_get",
                                     !.h = @ \cup {"decoded"}]]
    /\ UNCHANGED <<clock, store, pkce_store, fresh, issued, revokedOk,
                   redeemed, consumed>>

\* session = await storage.get_session(jti); if not session: return None
VGet(p) ==
    /\ At(p, "v_get")
    /\ LET c == [calls[p] EXCEPT !.h = @ \cup {"r_sessions"}]
           session == GetSessionSync(sessions, c.jti)
       IN calls' = [Sweep(calls) EXCEPT ![p] =
                      IF IsNone(session) THEN VerifyDone(c, None)
                      ELSE [c EXCEPT !.row = session, !.pc = "v_expiry"]]
    /\ UNCHANGED <<clock, store, pkce_store, fresh, issued, revokedOk,
                   redeemed, consumed>>

\* if datetime.utcnow() > expires_at: return None;  return payload
VExpiry(p) ==
    /\ At(p, "v_expiry")
    /\ LET c == calls[p]
       IN calls' = [Sweep(calls) EXCEPT ![p] =
                      IF SessionExpired(now, Val(c.row).expires_at)
                      THEN VerifyDone(c, None)
                      ELSE VerifyDone(c, Some(c.tok))]
    /\ UNCHANGED <<clock, store, pkce_store, fresh, issued, revokedOk,
                   redeemed, consumed>>

(* -------------------- SessionManager.revoke_session -------------------- *)
\* A request presents the credential to revoke_session.
CallRevoke(p, token) ==
    /\ Free(p)
    /\ calls' = [Sweep(calls) EXCEPT ![p] =
                   [Idle EXCEPT !.op = "revoke", !.pc = "rv_decode",
                                !.status = "running", !.tok = token]]
    /\ UNCHANGED <<clock, store, pkce_store, fresh, issued, revokedOk,
                   redeemed, consumed>>

\* payload = jwt.decode(...); jti = payload.get("jti"); without a jti, and on
\* InvalidTokenError, the result is False.
RvDecode(p) ==
    /\ At(p, "rv_decode")
    /\ LET c == calls[p]
           d == JwtDecode(c.tok, now)
       IN calls' = [Sweep(calls) EXCEPT ![p] =
                      IF d # "ok"
                      THEN IF Caught(d, RevokeHandlers)
                           THEN Returned(c, Some(FALSE)) ELSE Raised(c, d)
                      ELSE IF c.tok.jti = NoJti THEN Returned(c, Some(FALSE))
                      ELSE [c EXCEPT !.jti = c.tok.jti, !.pc = "rv_update"]]
    /\ UNCHANGED <<clock, store, pkce_store, fresh, issued, revokedOk,
                   redeemed, consumed>>

\* await storage.revoke_session(jti); return True
RvUpdate(p) ==
    /\ At(p, "rv_update")
    /\ LET c == calls[p]
       IN /\ sessions' = RevokeSessionSync(sessions, c.jti)
          /\ calls' = [Sweep(calls) EXCEPT ![p] =
                         Returned([c EXCEPT !.h = @ \cup {"w_sessions"}], Some(TRUE))]
          /\ revokedOk' = revokedOk \cup {c.tok}
    /\ UNCHANGED <<clock, user_tokens, exchange_codes, pkce_store, fresh,
                   issued, redeemed, consumed>>

(* ------------------ SessionManager.create_exchange_code ---------------- *)
\* create_exchange_code(user_sub) called on its own.
CallCreateCode(p, user_sub) ==
    /\ Free(p)
    /\ CodeLeft
    /\ calls' = [Sweep(calls) EXCEPT ![p] =
                   [Idle EXCEPT !.op = "create_code", !.pc = "cc_begin",
                                !.status = "running", !.sub = user_sub,
                                !.h = {"r_code"}]]
    /\ UNCHANGED <<clock, store, pkce_store, fresh, issued, revokedOk,
                   redeemed, consumed>>

\* code = secrets.token_urlsafe(32); expires_at = utcnow() + 5 minutes
CcBegin(p) ==
    /\ At(p, "cc_begin")
    /\ nextCode <= MaxCodes
    /\ calls' = [Sweep(calls) EXCEPT ![p].code = nextCode, ![p].t = now,
                                     ![p].pc = "cc_save",
                                     ![p].h = @ \ {"r_code"}]
    /\ nextCode' = nextCode + 1
    /\ UNCHANGED <<clock, store, pkce_store, nextJti, nextState, issued,
                   revokedOk, redeemed, consumed>>

\* await storage.save_exchange_code(code, user_sub, expires_at); return code.
\* The login callback then renders success.html with both values.
CcSave(p) ==
    /\ At(p, "cc_save")
    /\ LET c == calls[p]
           c2 == [c EXCEPT !.h = @ \cup {"w_codes"}]
       IN /\ exchange_codes' = SaveExchangeCodeSync(exchange_codes, c.code, c.sub,
                                                    c.t + ExchangeCodeMinutes)
          /\ calls' = [Sweep(calls) EXCEPT ![p] =
                         IF c.op = "callback" THEN Returned(c2, Some("success.html"))
                         ELSE Returned(c2, Some(c.code))]
    /\ UNCHANGED <<clock, sessions, user_tokens, pkce_store, fresh, issued,
                   revokedOk, redeemed, consumed>>

(* --------------- SessionManager.exchange_code_for_session -------------- *)
RedeemedCodes == {r[1] : r \in redeemed}
RedeemersOf(code) ==
    {q \in Procs : Running(q) /\ calls[q].op = "redeem" /\ calls[q].code = code}

\* What is true of the code when exchange_code_for_session starts.
RedeemFacts(code) ==
    (IF code \in RedeemedCodes THEN {"after_redeem"} ELSE {})
    \cup (IF code \in DOMAIN exchange_codes /\ ~exchange_codes[code].used
          THEN {"unused_at_start"} ELSE {})
    \cup (IF code \in DOMAIN exchange_codes /\ now > exchange_codes[code].expires_at
          THEN {"expired_at_start"} ELSE {})
    \cup (IF RedeemersOf(code) # {} THEN {"overlap"} ELSE {})
    \cup (IF code \in DOMAIN exchange_codes /\ ~exchange_codes[code].used
          THEN {"r_jti"} ELSE {})

\* A request asks exchange_code_for_session to redeem the code.  Redemptions
\* of the same code that are in flight together are marked as overlapping.
CallRedeem(p, code) ==
    /\ Free(p)
    /\ "r_jti" \in RedeemFacts(code) => JtiLeft
    /\ calls' = [q \in Procs |->
                   IF q = p
                   THEN [Idle EXCEPT !.op = "redeem", !.pc = "uc_select",
                                     !.status = "running", !.code = code,
                                     !.h = RedeemFacts(code)]
                   ELSE IF q \in RedeemersOf(code)
                        THEN [calls[q] EXCEPT !.h = @ \cup {"overlap"}]
                        ELSE Sweep(calls)[q]]
    /\ UNCHANGED <<clock, store, pkce_store, fresh, issued, revokedOk,
                   redeemed, consumed>>

\* user_sub = await storage.use_exchange_code(code): the SELECT of
\* _use_exchange_code_sync and its two first checks (no row, used).  A None
\* from use_exchange_code is a None from exchange_code_for_session.
UcSelect(p) ==
    /\ At(p, "uc_select")
    /\ LET c == calls[p]
           row == SelectExchangeCode(exchange_codes, c.code)
       IN calls' = [Sweep(calls) EXCEPT ![p] =
                      IF IsNone(row) THEN Returned(c, None)
                      ELSE IF Val(row).used THEN Returned(c, None)
                      ELSE [c EXCEPT !.row = row, !.sub = Val(row).user_sub,
                                     !.pc = "uc_expiry"]]
    /\ UNCHANGED <<clock, store, pkce_store, fresh, issued, revokedOk,
                   redeemed, consumed>>

\* if datetime.utcnow() > expires_at: return None
UcExpiry(p) ==
    /\ At(p, "uc_expiry")
    /\ LET c == calls[p]
       IN calls' = [Sweep(calls) EXCEPT ![p] =
                      IF CodeExpired(now, Val(c.row).expires_at)
                      THEN Returned(c, None)
                      ELSE [c EXCEPT !.pc = "uc_update"]]
    /\ UNCHANGED <<clock, store, pkce_store, fresh, issued, revokedOk,
                   redeemed, consumed>>

\* UPDATE exchange_codes SET used = 1 WHERE code = ?; commit; return user_sub
UcUpdate(p) ==
    /\ At(p, "uc_update")
    /\ exchange_codes' = MarkExchangeCodeUsed(exchange_codes, calls[p].code)
    /\ calls' = [Sweep(calls) EXCEPT ![p].pc = "r_email", ![p].row = None,
                              ![p].h = @ \cup {"w_codes"}]
    /\ UNCHANGED <<clock, sessions, user_tokens, pkce_store, fresh, issued,
                   revokedOk, redeemed, consumed>>

\* user_tokens = await storage.get_user_tokens(user_sub)
\* user_email = user_tokens.get("user_email", "") if user_tokens else ""
REmail(p) ==
    /\ At(p, "r_email")
    /\ LET row == GetUserTokensSync(user_tokens, calls[p].sub)
       IN calls' = [Sweep(calls) EXCEPT ![p].email =
                                     IF IsNone(row) THEN "" ELSE Val(row).user_email,
                                 ![p].pc = "cs_begin"]
    /\ UNCHANGED <<clock, store, pkce_store, fresh, issued, revokedOk,
                   redeemed, consumed>>

(* ------------------------------ OAuthManager --------------------------- *)
\* secrets.token_bytes(32) and the size of a SHA256 digest, in bytes.
VerifierBytes == 32
DigestBytes == 32

\* base64.urlsafe_b64encode of n bytes: four characters for every three bytes
\* begun, the last (3 - n % 3) % 3 of them '='.  A text is known by the data
\* it encodes, its number of characters and how many of them are padding.
UrlsafeB64encode(data, n) ==
    [data |-> data, chars |-> 4 * ((n + 2) \div 3), pad |-> (3 - (n % 3)) % 3]

RstripPad_Keep(e) == e

\* .rstrip('=')
RstripPad(e) == [e EXCEPT !.chars = @ - e.pad, !.pad = 0]

\* code_verifier = urlsafe_b64encode(secrets.token_bytes(32)).rstrip('='),
\* id being the bytes drawn.
CodeVerifier(id) == RstripPad(UrlsafeB64encode(<<"token_bytes", id>>, VerifierBytes))

\* code_challenge = urlsafe_b64encode(sha256(code_verifier).digest()).rstrip('='),
\* the digest as an uninterpreted image of the text hashed.
CodeChallenge(code_verifier) ==
    RstripPad(UrlsafeB64encode(<<"sha256", code_verifier>>, DigestBytes))

\* /auth/start: get_authorization_url() puts a fresh state and PKCE pair into
\* _pkce_store and the handler answers with the authorization URL, of which
\* the parameters that belong to the login are kept.  The handler has no
\* await, it runs in one piece.
AuthStart ==
    /\ nextState <= MaxStates
    /\ \E p \in Procs :
         /\ Free(p)
         /\ LET code_verifier == CodeVerifier(nextState)
                code_challenge == CodeChallenge(code_verifier)
                url == [state |-> nextState, code_challenge |-> code_challenge,
                        code_challenge_method |-> "S256"]
            IN /\ pkce_store' = Upsert(pkce_store, nextState,
                                       [code_verifier |-> code_verifier,
                                        code_challenge |-> code_challenge])
               /\ calls' = [Sweep(calls) EXCEPT ![p] =
                              [Idle EXCEPT !.op = "auth_start",
                                           !.status = "returned",
                                           !.state = nextState,
                                           !.ret = Some(url)]]
    /\ consumed' = Upsert(consumed, nextState, 0)
    /\ nextState' = nextState + 1
    /\ UNCHANGED <<clock, store, nextJti, nextCode, issued, revokedOk,
                   redeemed>>

PkceDelete_Keep(P, state) == P

\* del self._pkce_store[state]
PkceDelete(P, state) == [x \in DOMAIN P \ {state} |-> P[x]]

\* What the provider can answer.
AccessTokens == {"at1", "at2"}
RefreshTokens == {"", "rt1"}
NoExpiresIn == 0
ExpiresIns == {NoExpiresIn, 600}
HttpFailures == {"HTTPStatusError", "ConnectError"}
TokenResponses ==
    {[NoResp EXCEPT !.status = "ok", !.access_token = a, !.refresh_token = r,
                    !.expires_in = e] :
        a \in AccessTokens, r \in RefreshTokens, e \in ExpiresIns}
    \cup {[NoResp EXCEPT !.status = f] : f \in HttpFailures}
UserinfoResponses ==
    {[NoResp EXCEPT !.status = "ok", !.sub = u, !.email = m] :
        u \in Subs, m \in Emails}
    \cup {[NoResp EXCEPT !.status = f] : f \in HttpFailures}

\* The provider's answer was a failure: a transport error or a non-2xx status.
Failure(resp) == IF resp.status \in HttpFailures THEN {"http_failed"} ELSE {}

RaiseForStatus_Ignore(resp) == "ok"

\* client.post / client.get followed by response.raise_for_status(): "ok" or
\* the httpx.HTTPError that leaves the call.
RaiseForStatus(resp) == resp.status

ExpiresMinutes_NoDefault(expires_in) == expires_in \div 60

\* timedelta(seconds=tokens.get("expires_in", 3600)), in minutes
ExpiresMinutes(expires_in) ==
    (IF expires_in = NoExpiresIn THEN DefaultExpiresIn ELSE expires_in) \div 60

\* The except Exception clause of auth_callback renders error.html.
CallbackFailed(c, exc) ==
    Returned([c EXCEPT !.err = exc], Some("error.html"))

\* A request GET /auth/callback?code&state&error arrives.
CallCallback(p, code, state, error) ==
    /\ Free(p)
    /\ calls' = [Sweep(calls) EXCEPT ![p] =
                   [Idle EXCEPT !.op = "callback", !.pc = "xc_pkce",
                                !.status = "running", !.state = state,
                                !.code = IF code = "" THEN 0 ELSE 1,
                                !.h = IF error THEN {"error_param"} ELSE {}]]
    /\ UNCHANGED <<clock, store, pkce_store, fresh, issued, revokedOk,
                   redeemed, consumed>>

PkceLookup_Default(P, state) ==
    IF state \in DOMAIN P THEN Some(P[state])
    ELSE Some([code_verifier |-> CodeVerifier(0),
               code_challenge |-> CodeChallenge(CodeVerifier(0))])

\* self._pkce_store.get(state)
PkceLookup(P, state) == IF state \in DOMAIN P THEN Some(P[state]) ELSE None

\* auth_callback up to the first await inside exchange_code: the parameter
\* checks of the handler, then the lookup of the PKCE entry and its removal.
\* No other handler runs in between (there is no await).  A handler that
\* obtains the verifier goes on to draw a session id and an exchange code.
XcPkce(p) ==
    /\ At(p, "xc_pkce")
    /\ LET c == calls[p]
           pkce_data == PkceLookup(pkce_store, c.state)
       IN IF "error_param" \in c.h \/ c.code = 0 \/ c.state = NoState
          THEN /\ calls' = [Sweep(calls) EXCEPT ![p] = Returned(c, Some("error.html"))]
               /\ UNCHANGED <<pkce_store, consumed>>
          ELSE IF IsNone(pkce_data)
          THEN /\ calls' = [Sweep(calls) EXCEPT ![p] = CallbackFailed(c, "ValueError")]
               /\ UNCHANGED <<pkce_store, consumed>>
          ELSE /\ JtiLeft
               /\ CodeLeft
               /\ calls' = [Sweep(calls) EXCEPT ![p] =
                              [c EXCEPT !.t = Val(pkce_data).code_verifier.data[2],
                                        !.h = @ \cup {"got_verifier"} \cup Reservations,
                                        !.pc = "xc_token"]]
               /\ pkce_store' = PkceDelete(pkce_store, c.state)
               /\ consumed' = [s \in DOMAIN consumed |->
                                 IF s = c.state THEN consumed[s] + 1 ELSE consumed[s]]
    /\ UNCHANGED <<clock, store, fresh, issued, revokedOk, redeemed>>

\* response = await client.post(token_endpoint); response.raise_for_status()
XcToken(p, resp) ==
    /\ At(p, "xc_token")
    /\ LET c == [calls[p] EXCEPT !.h = @ \cup {"net_token"} \cup Failure(resp)]
           r == RaiseForStatus(resp)
       IN calls' = [Sweep(calls) EXCEPT ![p] =
                      IF r # "ok" THEN CallbackFailed(c, r)
                      ELSE [c EXCEPT !.resp = resp, !.pc = "xc_userinfo"]]
    /\ UNCHANGED <<clock, store, pkce_store, fresh, issued, revokedOk,
                   redeemed, consumed>>

\* userinfo = await self._get_userinfo(access_token)
XcUserinfo(p, resp) ==
    /\ At(p, "xc_userinfo")
    /\ LET c == [calls[p] EXCEPT !.h = @ \cup {"net_userinfo"} \cup Failure(resp)]
           r == RaiseForStatus(resp)
       IN calls' = [Sweep(calls) EXCEPT ![p] =
                      IF r # "ok" THEN CallbackFailed(c, r)
                      ELSE [c EXCEPT !.sub = resp.sub, !.email = resp.email,
                                     !.pc = "xc_expires"]]
    /\ UNCHANGED <<clock, store, pkce_store, fresh, issued, revokedOk,
                   redeemed, consumed>>

\* expires_at = datetime.utcnow() + timedelta(seconds=expires_in)
XcExpires(p) ==
    /\ At(p, "xc_expires")
    /\ calls' = [Sweep(calls) EXCEPT ![p].t = now + ExpiresMinutes(calls[p].resp.expires_in),
                              ![p].pc = "xc_save"]
    /\ UNCHANGED <<clock, store, pkce_store, fresh, issued, revokedOk,
                   redeemed, consumed>>

\* await storage.save_user_tokens(...); return {...}.  auth_callback goes on
\* with create_session(result["user_sub"], result["user_email"]).
XcSave(p) ==
    /\ At(p, "xc_save")
    /\ LET c == calls[p]
       IN /\ user_tokens' = SaveUserTokensSync(user_tokens, c.sub, c.email,
                                               c.resp.access_token,
                                               c.resp.refresh_token, c.t)
          /\ calls' = [Sweep(calls) EXCEPT ![p].h = @ \cup {"w_tokens"},
                                    ![p].resp = NoResp, ![p].pc = "cs_begin"]
    /\ UNCHANGED <<clock, sessions, exchange_codes, pkce_store, fresh, issued,
                   revokedOk, redeemed, consumed>>

(* --------------------------- specification ----------------------------- *)
KnownCodes == DOMAIN exchange_codes \cup {UnknownCode}
KnownStates == 1..(nextState - 1) \cup {UnknownState, NoState}

Next ==
    \/ \E t \in CodeTimes \cup SessionTimes : Tick(t)
    \/ \E p \in Procs, a \in SessionInputs : CallCreateSession(p, a[1], a[2])
    \/ \E p \in Procs : CsBegin(p)
    \/ \E p \in Procs : CsSave(p)
    \/ \E p \in Procs, k \in Presentable : CallVerify(p, k)
    \/ \E p \in Procs : VDecode(p)
    \/ \E p \in Procs : VGet(p)
    \/ \E p \in Procs : VExpiry(p)
    \/ \E p \in Procs, k \in Presentable : CallRevoke(p, k)
    \/ \E p \in Procs : RvDecode(p)
    \/ \E p \in Procs : RvUpdate(p)
    \/ \E p \in Procs, u \in Subs : CallCreateCode(p, u)
    \/ \E p \in Procs : CcBegin(p)
    \/ \E p \in Procs : CcSave(p)
    \/ \E p \in Procs, k \in KnownCodes : CallRedeem(p, k)
    \/ \E p \in Procs : UcSelect(p)
    \/ \E p \in Procs : UcExpiry(p)
    \/ \E p \in Procs : UcUpdate(p)
    \/ \E p \in Procs : REmail(p)
    \/ AuthStart
    \/ \E p \in Procs, code \in {"", "abc"}, s \in KnownStates, e \in BOOLEAN :
           CallCallback(p, code, s, e)
    \/ \E p \in Procs : XcPkce(p)
    \/ \E p \in Procs, r \in TokenResponses : XcToken(p, r)
    \/ \E p \in Procs, r \in UserinfoResponses : XcUserinfo(p, r)
    \/ \E p \in Procs : XcExpires(p)
    \/ \E p \in Procs : XcSave(p)

Spec == Init /\ [][Next]_vars

\* The exchange-code handoff on its own: codes are issued and redeemed by
\* concurrent handlers, for users who have or have not logged in before.
InitRedeem ==
    /\ now = 0
    /\ sessions = <<>>
    /\ user_tokens \in {<<>>,
                        SaveUserTokensSync(<<>>, "u1", "e@x.com", "at1", "rt1",
                                           ExpiresMinutes(NoExpiresIn))}
    /\ exchange_codes = <<>>
    /\ pkce_store = <<>>
    /\ nextJti = 1
    /\ nextCode = 1
    /\ nextState = 1
    /\ calls = [p \in Procs |-> Idle]
    /\ issued = {}
    /\ revokedOk = {}
    /\ redeemed = {}
    /\ consumed = [s \in {} |-> 0]

NextRedeem ==
    \/ \E t \in CodeTimes : Tick(t)
    \/ \E p \in Procs, u \in Subs : CallCreateCode(p, u)
    \/ \E p \in Procs : CcBegin(p)
    \/ \E p \in Procs : CcSave(p)
    \/ \E p \in Procs, k \in KnownCodes : CallRedeem(p, k)
    \/ \E p \in Procs : UcSelect(p)
    \/ \E p \in Procs : UcExpiry(p)
    \/ \E p \in Procs : UcUpdate(p)
    \/ \E p \in Procs : REmail(p)
    \/ \E p \in Procs : CsBegin(p)
    \/ \E p \in Procs : CsSave(p)

SpecRedeem == InitRedeem /\ [][NextRedeem]_vars

\* The session manager on its own: sessions are created, verified and
\* revoked by concurrent handlers.
NextSession ==
    \/ \E t \in SessionTimes : Tick(t)
    \/ \E p \in Procs, a \in SessionInputs : CallCreateSession(p, a[1], a[2])
    \/ \E p \in Procs : CsBegin(p)
    \/ \E p \in Procs : CsSave(p)
    \/ \E p \in Procs, k \in Presentable : CallVerify(p, k)
    \/ \E p \in Procs : VDecode(p)
    \/ \E p \in Procs : VGet(p)
    \/ \E p \in Procs : VExpiry(p)
    \/ \E p \in Procs, k \in Presentable : CallRevoke(p, k)
    \/ \E p \in Procs : RvDecode(p)
    \/ \E p \in Procs : RvUpdate(p)

SpecSession == Init /\ [][NextSession]_vars

\* The login flow on its own: /auth/start and concurrent /auth/callback
\* handlers, with every answer the provider can give.
NextAuth ==
    \/ AuthStart
    \/ \E p \in Procs, code \in {"", "abc"}, s \in KnownStates, e \in BOOLEAN :
           CallCallback(p, code, s, e)
    \/ \E p \in Procs : XcPkce(p)
    \/ \E p \in Procs, r \in TokenResponses : XcToken(p, r)
    \/ \E p \in Procs, r \in UserinfoResponses : XcUserinfo(p, r)
    \/ \E p \in Procs : XcExpires(p)
    \/ \E p \in Procs : XcSave(p)
    \/ \E p \in Procs : CsBegin(p)
    \/ \E p \in Procs : CsSave(p)
    \/ \E p \in Procs : CcBegin(p)
    \/ \E p \in Procs : CcSave(p)

SpecAuth == Init /\ [][NextAuth]_vars

(* ------------------ OAuthManager: access token lifecycle --------------- *)
TokenMarginMinutes == 5

NeedsRefresh_Never(t, expires_at) == FALSE

NeedsRefresh_Late(t, expires_at) == t > expires_at - TokenMarginMinutes

\* datetime.utcnow() >= expires_at - timedelta(minutes=5)
NeedsRefresh(t, expires_at) == t >= expires_at - TokenMarginMinutes

CanRefresh_AnyRow(row) == ~IsNone(row)

\* not (not user_tokens or not user_tokens.get("refresh_token"))
CanRefresh(row) == ~IsNone(row) /\ Val(row).refresh_token # ""

RefreshHandlers_StatusOnly == {"HTTPStatusError"}

\* The except clause of refresh_access_token.
RefreshHandlers == {"HTTPError"}

\* The moments at which tokens are asked for: the start of the safety margin
\* of a token that lives ten minutes, and a moment past its expiry by more
\* than the margin.
TokenTimes == {ExpiresMinutes(600) - TokenMarginMinutes,
               ExpiresMinutes(600) + TokenMarginMinutes + 1}

\* A tool asks get_valid_access_token(user_sub) for a token.
CallGetValid(p, user_sub) ==
    /\ Free(p)
    /\ calls' = [Sweep(calls) EXCEPT ![p] =
                   [Idle EXCEPT !.op = "get_valid", !.pc = "gv_get",
                                !.status = "running", !.sub = user_sub]]
    /\ UNCHANGED <<clock, store, pkce_store, fresh, issued, revokedOk,
                   redeemed, consumed>>

\* user_tokens = await storage.get_user_tokens(user_sub); if not: return None
GvGet(p) ==
    /\ At(p, "gv_get")
    /\ LET c == calls[p]
           row == GetUserTokensSync(user_tokens, c.sub)
       IN calls' = [Sweep(calls) EXCEPT ![p] =
                      IF IsNone(row) THEN Returned(c, None)
                      ELSE [c EXCEPT !.row = row, !.pc = "gv_check"]]
    /\ UNCHANGED <<clock, store, pkce_store, fresh, issued, revokedOk,
                   redeemed, consumed>>

\* if utcnow() >= expires_at - 5 minutes: return await refresh_access_token()
\* return user_tokens["access_token"]
GvCheck(p) ==
    /\ At(p, "gv_check")
    /\ LET c == calls[p]
       IN calls' = [Sweep(calls) EXCEPT ![p] =
                      IF NeedsRefresh(now, Val(c.row).token_expires_at)
                      THEN [c EXCEPT !.row = None, !.pc = "rf_get",
                                     !.h = @ \cup {"delegated"}]
                      ELSE Returned(c, Some(Val(c.row).access_token))]
    /\ UNCHANGED <<clock, store, pkce_store, fresh, issued, revokedOk,
                   redeemed, consumed>>

\* refresh_access_token(user_sub) called on its own.
CallRefresh(p, user_sub) ==
    /\ Free(p)
    /\ calls' = [Sweep(calls) EXCEPT ![p] =
                   [Idle EXCEPT !.op = "refresh", !.pc = "rf_get",
                                !.status = "running", !.sub = user_sub]]
    /\ UNCHANGED <<clock, store, pkce_store, fresh, issued, revokedOk,
                   redeemed, consumed>>

\* What refresh_access_token found in the store when it read the record.
RefreshFacts(row) ==
    IF IsNone(row) THEN {"no_record"}
    ELSE IF Val(row).refresh_token = "" THEN {"no_refresh_token"} ELSE {}

\* user_tokens = await storage.get_user_tokens(user_sub)
\* if not user_tokens or not user_tokens.get("refresh_token"): return None
RfGet(p) ==
    /\ At(p, "rf_get")
    /\ LET c0 == calls[p]
           row == GetUserTokensSync(user_tokens, c0.sub)
           c == [c0 EXCEPT !.h = @ \cup RefreshFacts(row)]
       IN calls' = [Sweep(calls) EXCEPT ![p] =
                      IF ~CanRefresh(row) THEN Returned(c, None)
                      ELSE [c EXCEPT !.row = row, !.pc = "rf_post"]]
    /\ UNCHANGED <<clock, store, pkce_store, fresh, issued, revokedOk,
                   redeemed, consumed>>

\* response = await client.post(token_endpoint); response.raise_for_status();
\* expires_at = utcnow() + timedelta(seconds=expires_in).  An httpx.HTTPError
\* is turned into None by the except clause.
RfPost(p, resp) ==
    /\ At(p, "rf_post")
    /\ LET c0 == calls[p]
           c == [c0 EXCEPT !.h = @ \cup Failure(resp)
                               \cup (IF "net_token" \in c0.h THEN {"net_retry"}
                                     ELSE {"net_token"})
                               \cup (IF resp.refresh_token # "" THEN {"rotated"}
                                     ELSE {})]
           r == RaiseForStatus(resp)
       IN calls' = [Sweep(calls) EXCEPT ![p] =
                      IF r # "ok"
                      THEN IF Caught(r, RefreshHandlers)
                           THEN Returned([c EXCEPT !.err = r], None)
                           ELSE Raised(c, r)
                      ELSE [c EXCEPT !.resp = resp,
                                     !.t = now + ExpiresMinutes(resp.expires_in),
                                     !.pc = "rf_save"]]
    /\ UNCHANGED <<clock, store, pkce_store, fresh, issued, revokedOk,
                   redeemed, consumed>>

RefreshTokenToSave_FromResponse(row, resp) ==
    IF resp.refresh_token # "" THEN resp.refresh_token ELSE Val(row).refresh_token

\* user_tokens.get("refresh_token"): the refresh token written back is the
\* one of the record read at the start, whatever the response carries.
RefreshTokenToSave(row, resp) == Val(row).refresh_token

\* await storage.save_user_tokens(user_sub, user_tokens.get("user_email"),
\* access_token, user_tokens.get("refresh_token"), expires_at)
\* return access_token
RfSave(p) ==
    /\ At(p, "rf_save")
    /\ LET c == calls[p]
       IN /\ user_tokens' = SaveUserTokensSync(user_tokens, c.sub,
                                               Val(c.row).user_email,
                                               c.resp.access_token,
                                               RefreshTokenToSave(c.row, c.resp),
                                               c.t)
          /\ calls' = [Sweep(calls) EXCEPT ![p] =
                         Returned([c EXCEPT !.h = @ \cup {"w_tokens"}],
                                  Some(c.resp.access_token))]
    /\ UNCHANGED <<clock, sessions, exchange_codes, pkce_store, fresh, issued,
                   revokedOk, redeemed, consumed>>

\* The token lifecycle: tools ask for tokens and refresh them while the
\* user may log in again, for users who have or have not logged in before.
StoredTokens ==
    {<<>>,
     SaveUserTokensSync(<<>>, "u1", "e@x.com", "at0", "rt0", ExpiresMinutes(600)),
     SaveUserTokensSync(<<>>, "u1", "e@x.com", "at0", "", ExpiresMinutes(600))}

InitTokens ==
    /\ now = 0
    /\ sessions = <<>>
    /\ user_tokens \in StoredTokens
    /\ exchange_codes = <<>>
    /\ pkce_store = <<>>
    /\ nextJti = 1
    /\ nextCode = 1
    /\ nextState = 1
    /\ calls = [p \in Procs |-> Idle]
    /\ issued = {}
    /\ revokedOk = {}
    /\ redeemed = {}
    /\ consumed = [s \in {} |-> 0]

\* What the provider answers in this part: to a refresh, a new access token
\* with or without a lifetime and with or without a new refresh token, or a
\* failure; to a login, a token pair whose
\* refresh token is new or absent, for the user who logs in again.
RefreshAnswers ==
    {r \in TokenResponses : r.status # "ok" \/ r.access_token = "at1"}
LoginAnswers ==
    {r \in TokenResponses :
        r.status = "ok" /\ r.access_token = "at2" /\ r.expires_in = NoExpiresIn}
LoginUsers ==
    {r \in UserinfoResponses : r.status = "ok" /\ r.sub = "u1" /\ r.email = "e@x.com"}

NextTokens ==
    \/ \E t \in TokenTimes : Tick(t)
    \/ \E p \in Procs, u \in Subs : CallGetValid(p, u)
    \/ \E p \in Procs : GvGet(p)
    \/ \E p \in Procs : GvCheck(p)
    \/ \E p \in Procs, u \in Subs : CallRefresh(p, u)
    \/ \E p \in Procs : RfGet(p)
    \/ \E p \in Procs, r \in RefreshAnswers : RfPost(p, r)
    \/ \E p \in Procs : RfSave(p)
    \/ AuthStart
    \/ \E p \in Procs, s \in KnownStates : CallCallback(p, "abc", s, FALSE)
    \/ \E p \in Procs : XcPkce(p)
    \/ \E p \in Procs, r \in LoginAnswers : XcToken(p, r)
    \/ \E p \in Procs, r \in LoginUsers : XcUserinfo(p, r)
    \/ \E p \in Procs : XcExpires(p)
    \/ \E p \in Procs : XcSave(p)
    \/ \E p \in Procs : CsBegin(p)
    \/ \E p \in Procs : CsSave(p)
    \/ \E p \in Procs : CcBegin(p)
    \/ \E p \in Procs : CcSave(p)

SpecTokens == InitTokens /\ [][NextTokens]_vars

(* ------------------------------ /mcp endpoint -------------------------- *)
SchemeWords == {<<>>, <<"Basic">>, <<"Bearer">>, <<"Bearer", "Bearer">>,
                <<"Bearer", "Basic">>}

\* What is true of the header as the client sent it.
HeaderFacts(hdr) ==
    IF ~hdr.present THEN {"hdr_missing"}
    ELSE IF Len(hdr.words) = 0 \/ hdr.words[1] # "Bearer" THEN {"hdr_not_bearer"}
    ELSE {}

StartsWithBearer_Any(hdr) == TRUE

\* authorization.startswith("Bearer ")
StartsWithBearer(hdr) == Len(hdr.words) > 0 /\ hdr.words[1] = "Bearer"

IsOtherWord(w) == w # "Bearer"

\* authorization.replace("Bearer ", ""): every occurrence goes; with another
\* word left in front of it the rest is no JWT.
StripBearer(hdr) ==
    IF SelectSeq(hdr.words, IsOtherWord) = <<>> THEN hdr.tok
    ELSE [hdr.tok EXCEPT !.sig = "malformed"]

CalendarTools == {"calendar_list_events", "calendar_create_event"}
WeatherTools == {"weather_current", "weather_forecast"}

\* The rest of the request: its HTTP method and, for POST, its JSON body.
McpRequests ==
    {[http |-> "GET", json |-> FALSE, method |-> "", tool |-> ""],
     [http |-> "POST", json |-> FALSE, method |-> "", tool |-> ""]}
    \cup {[http |-> "POST", json |-> TRUE, method |-> m, tool |-> ""] :
            m \in {"initialize", "tools/list", "resources/list"}}
    \cup {[http |-> "POST", json |-> TRUE, method |-> "tools/call", tool |-> t] :
            t \in {"calendar_list_events", "weather_current", "nope"}}

\* A request to /mcp arrives.
CallMcp(p, hdr) ==
    /\ Free(p)
    /\ calls' = [Sweep(calls) EXCEPT ![p] =
                   [Idle EXCEPT !.op = "mcp", !.pc = "m_auth",
                                !.status = "running", !.hdr = hdr,
                                !.h = HeaderFacts(hdr)]]
    /\ UNCHANGED <<clock, store, pkce_store, fresh, issued, revokedOk,
                   redeemed, consumed>>

\* verify_auth: 401 without a header or without the Bearer prefix; otherwise
\* the credential goes to session_manager.verify_session.
McpAuth(p) ==
    /\ At(p, "m_auth")
    /\ LET c == calls[p]
       IN calls' = [Sweep(calls) EXCEPT ![p] =
                      IF ~c.hdr.present THEN Raised(c, "401")
                      ELSE IF ~StartsWithBearer(c.hdr) THEN Raised(c, "401")
                      ELSE [c EXCEPT !.tok = StripBearer(c.hdr),
                                     !.hdr = NoHeader, !.pc = "v_decode"]]
    /\ UNCHANGED <<clock, store, pkce_store, fresh, issued, revokedOk,
                   redeemed, consumed>>

\* mcp_endpoint after verify_auth: the event stream for GET; for POST the
\* body is parsed and the protocol method or the tool is reached.  A
\* calendar tool is called with user_sub, a weather tool without.
McpDispatch(p, req) ==
    /\ At(p, "m_dispatch")
    /\ LET c == [calls[p] EXCEPT !.h = @ \cup {"dispatched"}]
           reached(m, t, u) == Returned(c, Some([method |-> m, tool |-> t,
                                                 user_sub |-> u]))
       IN calls' = [Sweep(calls) EXCEPT ![p] =
                      IF req.http = "GET" THEN reached("sse", "", "")
                      ELSE IF ~req.json THEN Raised(c, "400")
                      ELSE IF req.method \in {"initialize", "tools/list"}
                      THEN reached(req.method, "", "")
                      ELSE IF req.method # "tools/call"
                      THEN reached("unknown", "", "")
                      ELSE IF req.tool \in CalendarTools
                      THEN reached("tools/call", req.tool, c.sub)
                      ELSE IF req.tool \in WeatherTools
                      THEN reached("tools/call", req.tool, "")
                      ELSE reached("tools/call", "unknown", "")]
    /\ UNCHANGED <<clock, store, pkce_store, fresh, issued, revokedOk,
                   redeemed, consumed>>

\* The /mcp endpoint next to the session manager: requests arrive with any
\* header while sessions are created, expire and are revoked.
McpHeaders ==
    {NoHeader}
    \cup {[present |-> TRUE, words |-> w, tok |-> k] :
            w \in SchemeWords, k \in issued \cup {Tampered(x) : x \in issued}}

NextMcp ==
    \/ \E t \in SessionTimes : Tick(t)
    \/ \E p \in Procs, a \in SessionInputs : CallCreateSession(p, a[1], a[2])
    \/ \E p \in Procs : CsBegin(p)
    \/ \E p \in Procs : CsSave(p)
    \/ \E p \in Procs, k \in issued : CallRevoke(p, k)
    \/ \E p \in Procs : RvDecode(p)
    \/ \E p \in Procs : RvUpdate(p)
    \/ \E p \in Procs, hd \in McpHeaders : CallMcp(p, hd)
    \/ \E p \in Procs : McpAuth(p)
    \/ \E p \in Procs : VDecode(p)
    \/ \E p \in Procs : VGet(p)
    \/ \E p \in Procs : VExpiry(p)
    \/ \E p \in Procs, r \in McpRequests : McpDispatch(p, r)

SpecMcp == Init /\ [][NextMcp]_vars

(* ------------------------------ process restart ----------------------- *)
NewPkceStore_Kept(P) == P

\* self._pkce_store = {} in OAuthManager.__init__: a new process starts with
\* an empty PKCE store, whatever the old one held.
NewPkceStore(P) == <<>>

\* The server process is restarted: the handlers in flight are gone, the
\* module-level OAuthManager and Storage objects are constructed again
\* (CREATE TABLE IF NOT EXISTS in Storage._init_db keeps the rows of the
\* database file).  The first slot shows, for one step, that the process has
\* just started.
Restart ==
    /\ pkce_store' = NewPkceStore(pkce_store)
    /\ calls' = [p \in Procs |->
                   IF p = 1 THEN [Idle EXCEPT !.op = "restart", !.status = "returned"]
                   ELSE Idle]
    /\ UNCHANGED <<store, clock, fresh, issued, revokedOk, redeemed, consumed>>

\* Logins, sessions and restarts: /auth/start and /auth/callback run, sessions
\* are created and verified, and the process is restarted at any moment.
NextRestart ==
    \/ Restart
    \/ AuthStart
    \/ \E p \in Procs, s \in KnownStates : CallCallback(p, "abc", s, FALSE)
    \/ \E p \in Procs : XcPkce(p)
    \/ \E p \in Procs, r \in LoginAnswers : XcToken(p, r)
    \/ \E p \in Procs, r \in LoginUsers : XcUserinfo(p, r)
    \/ \E p \in Procs : XcExpires(p)
    \/ \E p \in Procs : XcSave(p)
    \/ \E p \in Procs, a \in SessionInputs : CallCreateSession(p, a[1], a[2])
    \/ \E p \in Procs : CsBegin(p)
    \/ \E p \in Procs : CsSave(p)
    \/ \E p \in Procs : CcBegin(p)
    \/ \E p \in Procs : CcSave(p)
    \/ \E p \in Procs, k \in issued : CallVerify(p, k)
    \/ \E p \in Procs : VDecode(p)
    \/ \E p \in Procs : VGet(p)
    \/ \E p \in Procs : VExpiry(p)

SpecRestart == Init /\ [][NextRestart]_vars

(* ------------------------------ login again --------------------------- *)
\* Logins into a store that holds the token record of an earlier login, of
\* the user who logs in now or of another one, while the clock moves on.
InitRelogin ==
    /\ now = 0
    /\ sessions = <<>>
    /\ user_tokens \in {SaveUserTokensSync(<<>>, u, "e@x.com", "at0", "rt0",
                                           ExpiresMinutes(600)) : u \in Subs}
    /\ exchange_codes = <<>>
    /\ pkce_store = <<>>
    /\ nextJti = 1
    /\ nextCode = 1
    /\ nextState = 1
    /\ calls = [p \in Procs |-> Idle]
    /\ issued = {}
    /\ revokedOk = {}
    /\ redeemed = {}
    /\ consumed = [s \in {} |-> 0]

NextRelogin ==
    \/ NextAuth
    \/ \E t \in TokenTimes : Tick(t)

SpecRelogin == InitRelogin /\ [][NextRelogin]_vars

\* Redemptions in a process that may stop and start again at any moment: a
\* redemption that was under way is then left where it was.
NextRedeemRestart ==
    \/ NextRedeem
    \/ Restart

SpecRedeemRestart == InitRedeem /\ [][NextRedeemRestart]_vars

(* ------------------------------- claims -------------------------------- *)
\* verify_session run in one piece at time t on the sessions table S.
VerifiesAt(S, tok, t) ==
    /\ JwtDecode(tok, t) = "ok"
    /\ tok.jti # NoJti
    /\ ~IsNone(GetSessionSync(S, tok.jti))
    /\ ~SessionExpired(t, Val(GetSessionSync(S, tok.jti)).expires_at)

CredentialsFrom(code) == {r \in redeemed : r[1] = code}

\* C1: of any number of concurrent redemptions of one freshly issued exchange
\* code exactly one returns a credential: at most one session is ever created
\* from one code.
C1_OneCredentialPerCode ==
    \A k \in DOMAIN exchange_codes : Cardinality(CredentialsFrom(k)) <= 1

\* C2: when exchange_code_for_session is called in sequence with the same
\* unexpired code, a call that has the unused code to itself returns a
\* credential that verifies, and every call that starts after a call has
\* returned a credential for the code returns None.
C2_SequentialRedeem ==
    [][\A p \in Procs :
         (Ends(p) /\ calls[p].op = "redeem") =>
            /\ "after_redeem" \in calls[p].h => ReturnsNone(p)
            /\ ( /\ "unused_at_start" \in calls[p].h
                 /\ "overlap" \notin calls[p].h
                 /\ now <= exchange_codes[calls[p].code].expires_at )
               => /\ calls'[p].status = "returned"
                  /\ ~IsNone(calls'[p].ret)
                  /\ VerifiesAt(sessions', Val(calls'[p].ret), now')]_vars

\* C2 happens: a call that started after the code was redeemed has returned None.
C2_Witness ==
    \E p \in Procs :
        /\ calls[p].op = "redeem"
        /\ calls[p].status = "returned"
        /\ "after_redeem" \in calls[p].h
        /\ "expired_at_start" \notin calls[p].h
        /\ IsNone(calls[p].ret)

\* C3: a redemption of a code whose lifetime had elapsed when it started, the
\* code still being unused, returns None, creates no session and leaves the
\* code unused.
C3_ExpiredCodeRejected ==
    \A p \in Procs :
        ( /\ calls[p].op = "redeem"
          /\ {"expired_at_start", "unused_at_start"} \subseteq calls[p].h )
        => /\ calls[p].status # "raised"
           /\ calls[p].status = "returned" => IsNone(calls[p].ret)
           /\ calls[p].pc \in {"uc_select", "uc_expiry", "done"}
           /\ calls[p].h \cap {"w_sessions", "w_codes"} = {}

\* C3 happens: a redemption of an expired, unused code has returned None and
\* the code is still unused.
C3_Witness ==
    \E p \in Procs :
        /\ calls[p].op = "redeem"
        /\ calls[p].status = "returned"
        /\ {"expired_at_start", "unused_at_start"} \subseteq calls[p].h
        /\ IsNone(calls[p].ret)
        /\ ~exchange_codes[calls[p].code].used
        /\ now > exchange_codes[calls[p].code].expires_at

\* C4: verify_session returns a claim set only when the session row of the
\* credential's jti exists, was read unrevoked, and has expires_at not earlier
\* than the time of the check; in particular a row whose expires_at is in the
\* past yields None although revoked is false.
C4_VerifyNeedsLiveRecord ==
    [][\A p \in Procs :
         /\ (At(p, "v_get") /\ calls'[p].pc = "v_expiry")
            => /\ calls[p].jti \in DOMAIN sessions
               /\ ~sessions[calls[p].jti].revoked
         /\ ( /\ Steps(p)
              /\ calls'[p].op = "verify"
              /\ calls'[p].status = "returned"
              /\ ~IsNone(calls'[p].ret) )
            => /\ At(p, "v_expiry")
               /\ calls[p].tok.jti \in DOMAIN sessions
               /\ sessions[calls[p].tok.jti].expires_at >= now
               /\ Val(calls'[p].ret).jti = calls[p].tok.jti]_vars

\* C4 happens: a credential's embedded exp had not elapsed when it was
\* decoded, its row was read, and the persisted expires_at, by then in the
\* past, made verify_session return None.
C4_Witness ==
    \E p \in Procs :
        /\ calls[p].op = "verify"
        /\ calls[p].status = "returned"
        /\ "decoded" \in calls[p].h
        /\ IsNone(calls[p].ret)
        /\ calls[p].tok.jti \in DOMAIN sessions
        /\ ~sessions[calls[p].tok.jti].revoked
        /\ sessions[calls[p].tok.jti].expires_at < now

\* C5: a verify_session that starts after revoke_session has returned True
\* for the credential returns None, whatever happened in between.
C5_RevokedNeverVerifies ==
    \A p \in Procs :
        (calls[p].op = "verify" /\ "after_revoke" \in calls[p].h)
        => /\ calls[p].status # "raised"
           /\ calls[p].status = "returned" => IsNone(calls[p].ret)

\* C5 happens: a revoked credential whose embedded exp has not elapsed was
\* presented and verify_session returned None.
C5_Witness ==
    \E p \in Procs :
        /\ calls[p].op = "verify"
        /\ calls[p].status = "returned"
        /\ {"after_revoke", "decoded"} \subseteq calls[p].h
        /\ calls[p].tok \in issued
        /\ IsNone(calls[p].ret)

\* C6: create_session(user_sub, user_email) persists a row and returns a
\* credential that carry user_sub, user_email and the same jti and expiry; a
\* verify_session of an issued credential that ends before the credential's
\* expiry, the session not being revoked, returns that credential's claims.
C6_FreshSessionVerifies ==
    [][\A p \in Procs :
         /\ (At(p, "cs_save") /\ Steps(p))
            => LET c == calls[p]
               IN /\ c.jti \in DOMAIN sessions'
                  /\ sessions'[c.jti].user_sub = c.sub
                  /\ sessions'[c.jti].user_email = c.email
                  /\ \E k \in issued' :
                        /\ k.jti = c.jti
                        /\ k.sub = c.sub
                        /\ k.email = c.email
                        /\ k.exp = sessions'[c.jti].expires_at
         /\ ( /\ Ends(p)
              /\ calls[p].op = "verify"
              /\ calls[p].tok \in issued
              /\ now < calls[p].tok.exp
              /\ ~sessions[calls[p].tok.jti].revoked )
            => calls'[p].ret = Some(calls[p].tok)]_vars

\* C6 happens: verify_session has returned the claims of the session created
\* for ("u2", "").
C6_Witness ==
    \E p \in Procs :
        /\ calls[p].op = "verify"
        /\ calls[p].status = "returned"
        /\ ~IsNone(calls[p].ret)
        /\ Val(calls[p].ret).sub = "u2"
        /\ Val(calls[p].ret).email = ""
        /\ sessions[Val(calls[p].ret).jti].user_sub = "u2"

\* C7: verify_session never raises; whichever check fails (algorithm,
\* signature, embedded exp, missing jti, no row, revoked row, persisted
\* expires_at) it returns the same None, with nothing that tells the checks
\* apart.
C7_VerifyNeverRaises ==
    [][\A p \in Procs :
         (Steps(p) /\ Running(p) /\ calls[p].op = "verify") =>
            LET c == calls[p]
                rejected == ReturnsNone(p) /\ calls'[p].err = ""
            IN /\ calls'[p].status # "raised"
               /\ ( /\ c.pc = "v_decode"
                    /\ \/ c.tok.sig # "ok"
                       \/ c.tok.alg # JWT_ALGORITHM
                       \/ c.tok.exp <= now
                       \/ c.tok.jti = NoJti )
                  => rejected
               /\ ( /\ c.pc = "v_get"
                    /\ \/ c.jti \notin DOMAIN sessions
                       \/ sessions[c.jti].revoked )
                  => rejected
               /\ (c.pc = "v_expiry" /\ sessions[c.jti].expires_at < now)
                  => rejected]_vars

\* C7 happens: a credential with a broken signature was presented and
\* verify_session returned None.
C7_Witness ==
    \E p \in Procs :
        /\ calls[p].op = "verify"
        /\ calls[p].status = "returned"
        /\ calls[p].tok.sig = "bad"
        /\ IsNone(calls[p].ret)
        /\ calls[p].err = ""

ParamsOk(c) == "error_param" \notin c.h /\ c.code # 0 /\ c.state # NoState

\* C8: for every state issued by get_authorization_url, over any sequence or
\* interleaving of callbacks, at most one exchange_code call obtains the
\* stored verifier; every other call with that state fails with the
\* ValueError of an invalid state, before any provider call.
C8_VerifierObtainedOnce ==
    /\ \A s \in DOMAIN consumed : consumed[s] <= 1
    /\ \A p \in Procs :
          ( /\ calls[p].op = "callback"
            /\ calls[p].pc # "xc_pkce"
            /\ ParamsOk(calls[p])
            /\ "got_verifier" \notin calls[p].h )
          => /\ calls[p].status = "returned"
             /\ calls[p].err = "ValueError"
             /\ calls[p].h \cap {"net_token", "net_userinfo"} = {}

\* C8 happens: a callback presented an issued state whose verifier another
\* callback had obtained, and failed on the invalid state.
C8_Witness ==
    \E p \in Procs :
        /\ calls[p].op = "callback"
        /\ calls[p].status = "returned"
        /\ calls[p].err = "ValueError"
        /\ calls[p].state \in DOMAIN consumed
        /\ consumed[calls[p].state] = 1

\* C9: exchange_code with a state that is not in the PKCE store fails on the
\* invalid state in the step that looks the state up: no provider call is
\* made, and the PKCE store and the user_tokens table stay as they are.
C9_UnknownStateRejected ==
    [][\A p \in Procs :
         ( /\ At(p, "xc_pkce")
           /\ Steps(p)
           /\ ParamsOk(calls[p])
           /\ calls[p].state \notin DOMAIN pkce_store )
         => /\ calls'[p].status = "returned"
            /\ calls'[p].err = "ValueError"
            /\ calls'[p].ret = Some("error.html")
            /\ calls'[p].h \cap {"net_token", "net_userinfo", "w_tokens"} = {}
            /\ UNCHANGED <<pkce_store, user_tokens>>]_vars

\* C9 happens: a callback with a state that was never issued has failed,
\* while the entry of an issued state is still in the PKCE store.
C9_Witness ==
    \E p \in Procs :
        /\ calls[p].op = "callback"
        /\ calls[p].status = "returned"
        /\ calls[p].err = "ValueError"
        /\ calls[p].state = UnknownState
        /\ pkce_store # <<>>

\* C10: when the token endpoint or the userinfo endpoint answers with a
\* failure, exchange_code raises to auth_callback, which renders the error
\* page: no user_tokens row is written, no session and no exchange code is
\* created.
C10_ProviderFailureStopsLogin ==
    \A p \in Procs :
        (calls[p].op = "callback" /\ "http_failed" \in calls[p].h)
        => /\ calls[p].status = "returned"
           /\ calls[p].ret = Some("error.html")
           /\ calls[p].err \in HttpFailures
           /\ calls[p].h \cap {"w_tokens", "w_sessions", "w_codes"} = {}

\* C10 happens: the token endpoint answered, the userinfo endpoint failed,
\* and the callback rendered the error page with every table still empty.
C10_Witness ==
    \E p \in Procs :
        /\ calls[p].op = "callback"
        /\ calls[p].status = "returned"
        /\ {"http_failed", "net_userinfo"} \subseteq calls[p].h
        /\ calls[p].ret = Some("error.html")
        /\ user_tokens = <<>>
        /\ sessions = <<>>
        /\ exchange_codes = <<>>

NetFlags == {"net_token", "net_retry"}

\* C11: get_valid_access_token returns None for a user without a record;
\* with a record it returns the stored access token, without a provider call,
\* when now < token_expires_at - 5 minutes, and otherwise (the boundary
\* included) calls refresh_access_token and returns what that returns: the
\* access token the provider has just answered with, or None.
C11_ValidTokenOrRefresh ==
    [][\A p \in Procs :
         (calls[p].op = "get_valid" /\ Steps(p) /\ Running(p))
         => LET c == calls[p]
                d == calls'[p]
            IN /\ (c.pc = "gv_get" /\ c.sub \notin DOMAIN user_tokens)
                  => (d.status = "returned" /\ IsNone(d.ret))
               /\ (c.pc = "gv_check"
                     /\ now < Val(c.row).token_expires_at - TokenMarginMinutes)
                  => /\ d.status = "returned"
                     /\ d.ret = Some(Val(c.row).access_token)
                     /\ d.h \cap NetFlags = {}
               /\ (c.pc = "gv_check"
                     /\ now >= Val(c.row).token_expires_at - TokenMarginMinutes)
                  => (d.status = "running" /\ d.pc = "rf_get")
               /\ ("delegated" \in c.h /\ d.status # "running")
                  => /\ d.status = "returned"
                     /\ \/ IsNone(d.ret)
                        \/ /\ c.pc = "rf_save"
                           /\ "net_token" \in c.h
                           /\ d.ret = Some(c.resp.access_token)]_vars

\* C11 happens: at the exact start of the margin of the stored token the
\* call went to refresh and returned the provider's new token.
C11_Witness ==
    \E p \in Procs :
        /\ calls[p].op = "get_valid"
        /\ calls[p].status = "returned"
        /\ "delegated" \in calls[p].h
        /\ calls[p].ret = Some("at1")
        /\ now = ExpiresMinutes(600) - TokenMarginMinutes

C13_NothingToRefresh ==
    [][\A p \in Procs :
         ( /\ At(p, "rf_get")
           /\ Steps(p)
           /\ \/ calls[p].sub \notin DOMAIN user_tokens
              \/ user_tokens[calls[p].sub].refresh_token = "" )
         => /\ calls'[p].status = "returned"
            /\ IsNone(calls'[p].ret)
            /\ calls'[p].h \cap NetFlags = {}
            /\ UNCHANGED store]_vars

\* C13 happens: a refresh for a user whose record holds an empty refresh
\* token has returned None.
C13_Witness ==
    \E p \in Procs :
        /\ calls[p].op = "refresh"
        /\ calls[p].status = "returned"
        /\ IsNone(calls[p].ret)
        /\ "no_refresh_token" \in calls[p].h

\* C14: when the provider's answer to the refresh call is a failure (a
\* transport error or a non-success status), refresh_access_token returns
\* None: no exception leaves it, the token endpoint was called once, and the
\* call has written nothing to user_tokens.
C14_RefreshFailureIsNone ==
    [][\A p \in Procs :
         ( /\ At(p, "rf_post")
           /\ Steps(p)
           /\ "http_failed" \in calls'[p].h )
         => /\ calls'[p].status = "returned"
            /\ IsNone(calls'[p].ret)
            /\ "net_token" \in calls'[p].h
            /\ "net_retry" \notin calls'[p].h
            /\ "w_tokens" \notin calls'[p].h
            /\ UNCHANGED user_tokens]_vars

\* C14 happens: a refresh whose request did not reach the provider has
\* returned None and the record is the one the user logged in with.
C14_Witness ==
    \E p \in Procs :
        /\ calls[p].op = "refresh"
        /\ calls[p].status = "returned"
        /\ IsNone(calls[p].ret)
        /\ calls[p].err = "ConnectError"
        /\ "u1" \in DOMAIN user_tokens
        /\ user_tokens["u1"].access_token = "at0"

\* C15: the upsert of a successful refresh keeps the refresh token: the
\* refresh_token of the user's record right after the upsert is the one that
\* was there right before it, also when a login wrote a new refresh token
\* after the refresh had read the record.
C15_RefreshKeepsRefreshToken ==
    [][\A p \in Procs :
         (At(p, "rf_save") /\ Steps(p))
         => user_tokens'[calls[p].sub].refresh_token
              = user_tokens[calls[p].sub].refresh_token]_vars

\* C16: revoke_session looks at the signature and the structure of the
\* credential only: for every credential create_session has issued, expired
\* or not, it returns True and the session record is revoked.
C16_RevokeIgnoresExpiry ==
    \A p \in Procs :
        ( /\ calls[p].op = "revoke"
          /\ calls[p].status # "running"
          /\ calls[p].tok \in issued )
        => /\ calls[p].status = "returned"
           /\ calls[p].ret = Some(TRUE)
           /\ sessions[calls[p].tok.jti].revoked

\* C17: revoking a credential again changes nothing and succeeds again: once
\* a revoke_session of an issued credential has returned True, its record
\* stays revoked and every further revoke_session of it returns True.
C17_RevokeIdempotent ==
    /\ \A k \in revokedOk \cap issued : sessions[k.jti].revoked
    /\ \A p \in Procs :
          ( /\ calls[p].op = "revoke"
            /\ calls[p].status # "running"
            /\ calls[p].tok \in revokedOk \cap issued )
          => calls[p].ret = Some(TRUE)

\* C18: in every step, every session record stays in the table with the
\* user_sub, user_email and expires_at it was created with, and a record
\* that is revoked stays revoked.
C18_SessionRecordFrozen ==
    [][\A j \in DOMAIN sessions :
         /\ j \in DOMAIN sessions'
         /\ sessions'[j].user_sub = sessions[j].user_sub
         /\ sessions'[j].user_email = sessions[j].user_email
         /\ sessions'[j].expires_at = sessions[j].expires_at
         /\ sessions[j].revoked => sessions'[j].revoked]_vars

\* C18 happens: a session was revoked, and revoked once more, next to a
\* later session of another user that is still live.
C18_Witness ==
    \E j, k \in DOMAIN sessions, p \in Procs :
        /\ j < k
        /\ sessions[j].revoked
        /\ ~sessions[k].revoked
        /\ sessions[j].user_sub # sessions[k].user_sub
        /\ calls[p].op = "revoke"
        /\ calls[p].status = "returned"
        /\ calls[p].ret = Some(TRUE)
        /\ calls[p].tok.jti = j

\* C19: in every step, every exchange code record stays in the table with
\* the user_sub and expires_at it was created with, and a record that is
\* used stays used.
C19_ExchangeCodeFrozen ==
    [][\A k \in DOMAIN exchange_codes :
         /\ k \in DOMAIN exchange_codes'
         /\ exchange_codes'[k].user_sub = exchange_codes[k].user_sub
         /\ exchange_codes'[k].expires_at = exchange_codes[k].expires_at
         /\ exchange_codes[k].used => exchange_codes'[k].used]_vars

\* C19 happens: a code has been redeemed, its record is used, and a second
\* redemption of it has just been refused.
C19_Witness ==
    \E k \in DOMAIN exchange_codes, p \in Procs :
        /\ exchange_codes[k].used
        /\ CredentialsFrom(k) # {}
        /\ calls[p].op = "redeem"
        /\ calls[p].code = k
        /\ calls[p].status = "returned"
        /\ IsNone(calls[p].ret)

\* C20: a request to /mcp whose Authorization header is missing or does not
\* start with "Bearer ", or whose credential verify_session answers with
\* None, ends with status 401 and reaches no protocol method and no tool; a
\* request that gets past verify_auth carries a credential verify_session
\* accepted in that request, and a tool that takes a user is called with the
\* sub of that credential.
C20_McpNeedsVerifiedSession ==
    \A p \in Procs :
        calls[p].op = "mcp"
        => LET c == calls[p]
           IN /\ ( /\ c.h \cap {"hdr_missing", "hdr_not_bearer", "verify_none"} # {}
                   /\ ~(c.status = "running" /\ c.pc = "m_auth") )
                 => /\ c.status = "raised"
                    /\ c.err = "401"
                    /\ "dispatched" \notin c.h
              /\ (c.pc = "m_dispatch" \/ "dispatched" \in c.h)
                 => /\ "verified" \in c.h
                    /\ c.tok \in issued
              /\ (c.status = "returned")
                 => /\ "dispatched" \in c.h
                    /\ Val(c.ret).user_sub \in {"", c.tok.sub}
                    /\ (Val(c.ret).tool \in CalendarTools)
                       => Val(c.ret).user_sub = c.tok.sub

\* C20 happens: a calendar tool was called for the user of the presented
\* credential, after the session of another user had been revoked.
C20_Witness ==
    \E p \in Procs, k \in revokedOk :
        /\ calls[p].op = "mcp"
        /\ calls[p].status = "returned"
        /\ Val(calls[p].ret).tool \in CalendarTools
        /\ Val(calls[p].ret).user_sub = calls[p].tok.sub
        /\ k.sub # calls[p].tok.sub

\* A state that /auth/start issued, that no exchange_code call has obtained
\* the verifier of, and that is not in the PKCE store: it went with a restart.
LostStates ==
    {s \in DOMAIN consumed : consumed[s] = 0 /\ s \notin DOMAIN pkce_store}

C22_RefreshWritesWholeRecord ==
    [][/\ \A p \in Procs :
             (At(p, "rf_save") /\ Steps(p))
             => /\ calls'[p].status = "returned"
                /\ calls'[p].ret = Some(calls[p].resp.access_token)
                /\ user_tokens'[calls[p].sub].access_token
                     = calls[p].resp.access_token
                /\ user_tokens'[calls[p].sub].token_expires_at = calls[p].t
                /\ \A u \in DOMAIN user_tokens \ {calls[p].sub} :
                      user_tokens'[u] = user_tokens[u]
       /\ (user_tokens' # user_tokens)
             => \E p \in Procs :
                   (At(p, "rf_save") \/ At(p, "xc_save")) /\ Steps(p)]_vars

\* C22 happens: of two refreshes of one user that both read the record
\* before either wrote, one has written and returned its token, and the
\* other holds a response with another expiry and is about to write.
C22_Witness ==
    \E p, q \in Procs :
        /\ p # q
        /\ calls[q].op = "refresh"
        /\ calls[q].status = "returned"
        /\ "w_tokens" \in calls[q].h
        /\ calls[q].ret = Some("at1")
        /\ calls[p].op = "refresh"
        /\ At(p, "rf_save")
        /\ calls[p].sub = "u1"
        /\ "u1" \in DOMAIN user_tokens
        /\ user_tokens["u1"].access_token = "at1"
        /\ user_tokens["u1"].token_expires_at # calls[p].t

\* C23: every entry of the PKCE store holds a verifier of 43 to 128
\* characters without padding and, as its challenge, the unpadded URL-safe
\* base64 text of the SHA256 digest of that verifier; and the authorization
\* URL that /auth/start answers with carries the state it stored the pair
\* under, the challenge of that entry and the method S256.
C23_PkcePair ==
    /\ \A s \in DOMAIN pkce_store :
          LET v == pkce_store[s].code_verifier
              ch == pkce_store[s].code_challenge
          IN /\ v.chars >= 43
             /\ v.chars <= 128
             /\ v.pad = 0
             /\ ch.data = <<"sha256", v>>
             /\ ch.pad = 0
             /\ 3 * ch.chars >= 4 * DigestBytes
             /\ 3 * ch.chars < 4 * DigestBytes + 3
    /\ \A p \in Procs :
          calls[p].op = "auth_start"
          => /\ calls[p].state \in DOMAIN pkce_store
             /\ Val(calls[p].ret).state = calls[p].state
             /\ Val(calls[p].ret).code_challenge
                  = pkce_store[calls[p].state].code_challenge
             /\ Val(calls[p].ret).code_challenge_method = "S256"

\* C23 happens: /auth/start has just answered with a URL and the pair it
\* generated, with a verifier of 43 characters, is in the store.
C23_Witness ==
    \E p \in Procs :
        /\ calls[p].op = "auth_start"
        /\ calls[p].status = "returned"
        /\ calls[p].state \in DOMAIN pkce_store
        /\ pkce_store[calls[p].state].code_verifier.chars = 43

\* C24: verify_session decodes the credential before it reads the store:
\* when the signature is bad or the exp claim has elapsed, the step that
\* decodes ends the verification with None (401 for a request to /mcp), and
\* the sessions table has not been read.
C24_DecodeBeforeStore ==
    [][\A p \in Procs :
         ( /\ At(p, "v_decode")
           /\ Steps(p)
           /\ (calls[p].tok.sig # "ok" \/ calls[p].tok.exp <= now) )
         => /\ calls'[p].status # "running"
            /\ "r_sessions" \notin calls'[p].h
            /\ calls[p].op = "verify"
                 => (calls'[p].status = "returned" /\ IsNone(calls'[p].ret))
            /\ calls[p].op = "mcp"
                 => (calls'[p].status = "raised" /\ calls'[p].err = "401")]_vars

\* C24 happens: the verification of an issued credential whose exp claim has
\* elapsed has returned None without reading the sessions table.
C24_Witness ==
    \E p \in Procs :
        /\ calls[p].op = "verify"
        /\ calls[p].status = "returned"
        /\ IsNone(calls[p].ret)
        /\ calls[p].tok \in issued
        /\ calls[p].tok.exp <= now
        /\ "r_sessions" \notin calls[p].h

\* C25: verify_session writes nothing and its result is determined by the
\* credential, the sessions table and the clock: every step of a verification
\* leaves the three tables and the PKCE store as they are, and a
\* verification never raises and returns the credential's claims exactly if
\* the credential is well signed, unexpired and has an unrevoked, unexpired
\* row in the state it ends in, unless the row was revoked or the exp claim
\* was reached while the verification ran.
C25_VerifyPureAndRepeatable ==
    [][\A p \in Procs :
         /\ (Steps(p) /\ calls'[p].op = "verify")
            => UNCHANGED <<sessions, user_tokens, exchange_codes, pkce_store>>
         /\ (Ends(p) /\ calls[p].op = "verify")
            => LET tok == calls[p].tok
                   live == /\ tok.alg = JWT_ALGORITHM
                           /\ tok.sig = "ok"
                           /\ now < tok.exp
                           /\ tok.jti \in DOMAIN sessions
                           /\ ~sessions[tok.jti].revoked
                           /\ now <= sessions[tok.jti].expires_at
                   changed == \/ tok.exp <= now
                              \/ /\ tok.jti \in DOMAIN sessions
                                 /\ sessions[tok.jti].revoked
                                 /\ "after_revoke" \notin calls[p].h
               IN /\ calls'[p].status = "returned"
                  /\ live => calls'[p].ret = Some(tok)
                  /\ (~live /\ ~changed) => IsNone(calls'[p].ret)]_vars

\* C25 happens: a verification has returned the claims of a credential
\* while a second verification of the same credential has decoded it and is
\* about to read the same row.
C25_Witness ==
    \E p, q \in Procs :
        /\ calls[p].op = "verify"
        /\ calls[p].status = "returned"
        /\ calls[p].ret = Some(calls[p].tok)
        /\ calls[q].op = "verify"
        /\ At(q, "v_get")
        /\ calls[q].tok = calls[p].tok

\* C26: create_session saves the session row before it encodes the
\* credential and no operation deletes a row: every credential that was ever
\* issued has a row under its jti whose user_sub, user_email and expires_at
\* are the credential's sub, email and exp (at the clock's granularity), and
\* a credential that create_session hands to its caller is an issued one.
C26_CredentialHasRecord ==
    /\ \A k \in issued :
          /\ k.jti \in DOMAIN sessions
          /\ sessions[k.jti].user_sub = k.sub
          /\ sessions[k.jti].user_email = k.email
          /\ sessions[k.jti].expires_at = k.exp
    /\ \A p \in Procs :
          ( /\ calls[p].op \in {"create_session", "redeem"}
            /\ calls[p].status = "returned"
            /\ ~IsNone(calls[p].ret) )
          => Val(calls[p].ret) \in issued

\* C26 happens: the row of an issued credential is still there, with the
\* credential's claims, after the session was revoked and has expired.
C26_Witness ==
    \E k \in issued :
        /\ k.jti \in DOMAIN sessions
        /\ sessions[k.jti].revoked
        /\ sessions[k.jti].user_sub = k.sub
        /\ now > k.exp

\* C27: a redemption that succeeds creates exactly one session row: the
\* step that saves it adds one row under a new jti and leaves the others,
\* the row's user_sub is the code's user_sub, its user_email the user_email
\* of the user's token record or "" when there is none, its expires_at the
\* time create_session read during the redemption plus the session duration;
\* the credential returned names that row, and no other step of a
\* redemption touches the sessions table.
C27_RedeemCreatesOneSession ==
    [][\A p \in Procs :
         (Running(p) /\ calls[p].op = "redeem" /\ calls'[p].pc # calls[p].pc)
         => IF At(p, "cs_save")
            THEN LET c == calls[p]
                     u == exchange_codes[c.code].user_sub
                 IN /\ c.jti \notin DOMAIN sessions
                    /\ DOMAIN sessions' = DOMAIN sessions \cup {c.jti}
                    /\ \A j \in DOMAIN sessions : sessions'[j] = sessions[j]
                    /\ sessions'[c.jti].user_sub = u
                    /\ sessions'[c.jti].user_email
                         = (IF u \in DOMAIN user_tokens
                            THEN user_tokens[u].user_email ELSE "")
                    /\ sessions'[c.jti].expires_at = c.t + SessionMinutes
                    /\ c.t <= now
                    /\ ~sessions'[c.jti].revoked
                    /\ calls'[p].status = "returned"
                    /\ ~IsNone(calls'[p].ret)
                    /\ Val(calls'[p].ret).jti = c.jti
            ELSE /\ sessions' = sessions
                 /\ Ends(p) => ReturnsNone(p)]_vars

\* C27 happens: a code issued for a user without a token record was redeemed
\* and the session created for it carries the user and the email "".
C27_Witness ==
    \E p \in Procs :
        /\ calls[p].op = "redeem"
        /\ calls[p].status = "returned"
        /\ ~IsNone(calls[p].ret)
        /\ Val(calls[p].ret).sub \notin DOMAIN user_tokens
        /\ sessions[Val(calls[p].ret).jti].user_sub
             = exchange_codes[calls[p].code].user_sub
        /\ sessions[Val(calls[p].ret).jti].user_email = ""

\* C28: a redemption that finds its code unknown, used or expired returns
\* None and changes nothing: the step that returns None leaves the three
\* tables and the PKCE store as they are, the call has written neither a
\* session nor a used flag, and an expired unused code is still unused.
C28_FailedRedeemChangesNothing ==
    [][\A p \in Procs :
         (Running(p) /\ calls[p].op = "redeem" /\ calls'[p].pc # calls[p].pc)
         => LET c == calls[p]
            IN /\ ( /\ c.pc = "uc_select"
                    /\ \/ c.code \notin DOMAIN exchange_codes
                       \/ exchange_codes[c.code].used )
                  => ReturnsNone(p)
               /\ ( /\ c.pc = "uc_expiry"
                    /\ now > exchange_codes[c.code].expires_at )
                  => /\ ReturnsNone(p)
                     /\ exchange_codes'[c.code].used = exchange_codes[c.code].used
               /\ ReturnsNone(p)
                  => /\ UNCHANGED <<sessions, user_tokens, exchange_codes,
                                    pkce_store, issued, redeemed>>
                     /\ calls'[p].h \cap {"w_sessions", "w_codes"} = {}]_vars

\* C28 happens: a redemption of a code that another redemption had used has
\* returned None; the one session of the first redemption is all there is.
C28_Witness ==
    \E p \in Procs :
        /\ calls[p].op = "redeem"
        /\ calls[p].status = "returned"
        /\ IsNone(calls[p].ret)
        /\ calls[p].code \in DOMAIN exchange_codes
        /\ exchange_codes[calls[p].code].used
        /\ now <= exchange_codes[calls[p].code].expires_at
        /\ Cardinality(DOMAIN sessions) = 1
        /\ Cardinality(redeemed) = 1

\* C29: the sessions of one user do not touch each other: the step that
\* saves a new session leaves every row there was as it is, the step that
\* revokes a session changes no row but the one of the credential's jti, and
\* every other issued credential that verified before such a step verifies
\* after it.
C29_SessionsIndependent ==
    [][\A p \in Procs :
         /\ (At(p, "cs_save") /\ calls'[p].pc # "cs_save")
            => /\ calls[p].jti \notin DOMAIN sessions
               /\ \A j \in DOMAIN sessions : sessions'[j] = sessions[j]
         /\ (At(p, "rv_update") /\ calls'[p].pc # "rv_update")
            => /\ DOMAIN sessions' = DOMAIN sessions
               /\ \A j \in DOMAIN sessions \ {calls[p].jti} :
                     sessions'[j] = sessions[j]
         /\ ((At(p, "cs_save") \/ At(p, "rv_update")) /\ calls'[p].pc # calls[p].pc)
            => \A k \in issued :
                  (k.jti # calls[p].jti /\ VerifiesAt(sessions, k, now))
                  => VerifiesAt(sessions', k, now')]_vars

\* C29 happens: a user has two sessions, one of them was revoked, and a
\* verification of the other's credential has returned its claims.
C29_Witness ==
    \E p \in Procs, k \in issued :
        /\ calls[p].op = "verify"
        /\ calls[p].status = "returned"
        /\ ~IsNone(calls[p].ret)
        /\ k # calls[p].tok
        /\ k.sub = calls[p].tok.sub
        /\ sessions[k.jti].revoked
        /\ ~sessions[calls[p].tok.jti].revoked

\* C30: a login that gets as far as saving the tokens leaves, under the
\* subject of the userinfo answer, the record of this login in place of any
\* earlier one: the email of the userinfo answer, the access_token and the
\* refresh_token of the token answer, and as token_expires_at the time read
\* after the userinfo answer plus expires_in seconds, 3600 when the answer
\* has no expires_in; the records of the other users stay as they are.
C30_LoginReplacesRecord ==
    [][\A p \in Procs :
         /\ (At(p, "xc_expires") /\ calls'[p].pc = "xc_save")
            => 60 * (calls'[p].t - now)
                 = (IF calls[p].resp.expires_in = NoExpiresIn
                    THEN DefaultExpiresIn ELSE calls[p].resp.expires_in)
         /\ (At(p, "xc_save") /\ calls'[p].pc # "xc_save")
            => LET c == calls[p]
               IN /\ DOMAIN user_tokens' = DOMAIN user_tokens \cup {c.sub}
                  /\ user_tokens'[c.sub]
                       = [user_email |-> c.email,
                          access_token |-> c.resp.access_token,
                          refresh_token |-> c.resp.refresh_token,
                          token_expires_at |-> c.t]
                  /\ \A u \in DOMAIN user_tokens \ {c.sub} :
                        user_tokens'[u] = user_tokens[u]]_vars

\* C30 happens: a login whose token answer had no expires_in has saved its
\* record, due in 3600 seconds, next to the record of another user's
\* earlier login.
C30_Witness ==
    \E p \in Procs :
        /\ calls[p].op = "callback"
        /\ At(p, "cs_begin")
        /\ "w_tokens" \in calls[p].h
        /\ calls[p].sub \in DOMAIN user_tokens
        /\ user_tokens[calls[p].sub].access_token \in AccessTokens
        /\ user_tokens[calls[p].sub].token_expires_at = now + 60
        /\ \E u \in DOMAIN user_tokens \ {calls[p].sub} :
              user_tokens[u].access_token = "at0"

\* C31: exchange_code removes the PKCE entry when it finds it, before the
\* token request: the step that obtains the verifier leaves the state out of
\* the store and has made no provider call, a state whose verifier was
\* obtained is never in the store again, a failure of the token or of the
\* userinfo request leaves the store without the entry, and a callback that
\* comes with such a state fails on the invalid state without a provider call.
C31_EntryGoneBeforeTokenCall ==
    [][/\ \A s \in DOMAIN consumed' :
             consumed'[s] >= 1 => s \notin DOMAIN pkce_store'
       /\ \A p \in Procs :
             /\ ( /\ At(p, "xc_pkce")
                  /\ calls'[p].pc # "xc_pkce"
                  /\ ParamsOk(calls[p]) )
                => IF calls[p].state \in DOMAIN pkce_store
                   THEN /\ calls'[p].pc = "xc_token"
                        /\ calls[p].state \notin DOMAIN pkce_store'
                        /\ calls'[p].h \cap {"net_token", "net_userinfo"} = {}
                   ELSE /\ calls'[p].status = "returned"
                        /\ calls'[p].err = "ValueError"
                        /\ calls'[p].h \cap {"net_token", "net_userinfo"} = {}
             /\ ( /\ (At(p, "xc_token") \/ At(p, "xc_userinfo"))
                  /\ "http_failed" \in calls'[p].h )
                => /\ calls'[p].status = "returned"
                   /\ calls'[p].ret = Some("error.html")
                   /\ calls[p].state \notin DOMAIN pkce_store'
                   /\ UNCHANGED <<pkce_store, sessions, user_tokens,
                                  exchange_codes>>]_vars

\* C31 happens: the verifier of the state was obtained, that login ended
\* without tokens or session, and a second callback with the same state has
\* failed on the invalid state.
C31_Witness ==
    \E p \in Procs :
        /\ calls[p].op = "callback"
        /\ calls[p].status = "returned"
        /\ calls[p].err = "ValueError"
        /\ calls[p].state \in DOMAIN consumed
        /\ consumed[calls[p].state] = 1
        /\ \A q \in Procs : ~Running(q)
        /\ user_tokens = <<>>
        /\ sessions = <<>>

\* C32: a refresh writes back the refresh token it read: the refresh_token
\* of the record right after the write of a successful refresh is the one of
\* the record that refresh read at its start, also when the provider's
\* response carries a new refresh_token.
C32_RefreshTokenNotFromResponse ==
    [][\A p \in Procs :
         (At(p, "rf_save") /\ calls'[p].pc # "rf_save")
         => /\ user_tokens'[calls[p].sub].refresh_token
                 = Val(calls[p].row).refresh_token
            /\ ("rotated" \in calls[p].h) = (calls[p].resp.refresh_token # "")
            /\ calls'[p].ret = Some(calls[p].resp.access_token)]_vars

\* C32 happens: a refresh whose response carried a new refresh_token has
\* written its access token, and the record holds the refresh token of the
\* first login.
C32_Witness ==
    \E p \in Procs :
        /\ calls[p].op = "refresh"
        /\ calls[p].status = "returned"
        /\ {"rotated", "w_tokens"} \subseteq calls[p].h
        /\ calls[p].ret = Some("at1")
        /\ "u1" \in DOMAIN user_tokens
        /\ user_tokens["u1"].access_token = "at1"
        /\ user_tokens["u1"].refresh_token = "rt0"

\* C33: the code is marked used before the session is created: every
\* session created by a redemption belongs to a code whose used flag is set,
\* and so does every redemption that has got past use_exchange_code; a
\* redemption that stops before it has saved its session leaves a used code
\* without a session, never a session with an unused code.
C33_UsedBeforeSession ==
    /\ \A r \in redeemed :
          /\ r[1] \in DOMAIN exchange_codes
          /\ exchange_codes[r[1]].used
          /\ r[2] \in DOMAIN sessions
          /\ sessions[r[2]].user_sub = exchange_codes[r[1]].user_sub
    /\ \A p \in Procs :
          ( /\ Running(p)
            /\ calls[p].op = "redeem"
            /\ calls[p].pc \in {"r_email", "cs_begin", "cs_save"} )
          => /\ "w_codes" \in calls[p].h
             /\ exchange_codes[calls[p].code].used

\* C33 happens: the process stopped while a redemption was between marking
\* the code and saving the session: the code is used, no session exists and
\* nothing is under way.
C33_Witness ==
    /\ \E k \in DOMAIN exchange_codes :
          exchange_codes[k].used /\ CredentialsFrom(k) = {}
    /\ sessions = <<>>
    /\ \A q \in Procs : ~Running(q)

\* C34: revoke_session does not read the store: for a credential that is
\* well signed, unexpired and carries a jti it goes on to the UPDATE and
\* returns True whether the row of the jti is live, revoked or absent; the
\* UPDATE adds no row and changes no other table, and when the row is absent
\* or already revoked the sessions table is as it was.
C34_RevokeBlind ==
    [][\A p \in Procs :
         /\ ( /\ At(p, "rv_decode")
              /\ calls'[p].pc # "rv_decode"
              /\ calls[p].tok.alg = JWT_ALGORITHM
              /\ calls[p].tok.sig = "ok"
              /\ now < calls[p].tok.exp
              /\ calls[p].tok.jti # NoJti )
            => /\ calls'[p].pc = "rv_update"
               /\ calls'[p].status = "running"
               /\ UNCHANGED <<sessions, user_tokens, exchange_codes, pkce_store>>
         /\ (At(p, "rv_update") /\ calls'[p].pc # "rv_update")
            => LET j == calls[p].jti
               IN /\ calls'[p].status = "returned"
                  /\ calls'[p].ret = Some(TRUE)
                  /\ DOMAIN sessions' = DOMAIN sessions
                  /\ (j \notin DOMAIN sessions \/ sessions[j].revoked)
                        => sessions' = sessions
                  /\ UNCHANGED <<user_tokens, exchange_codes, pkce_store>>]_vars

\* C34 happens: revoke_session has returned True for a well signed
\* credential whose jti has no row, and there is still no such row.
C34_Witness ==
    \E p \in Procs :
        /\ calls[p].op = "revoke"
        /\ calls[p].status = "returned"
        /\ calls[p].ret = Some(TRUE)
        /\ calls[p].tok.jti = UnknownJti
        /\ UnknownJti \notin DOMAIN sessions
        /\ sessions # <<>>

====
